---------------------------- MODULE Spec2Model ----------------------------
(***************************************************************************)
(* Model of the notebooks of djarpin/notebooks:                            *)
(*   src/chapter_computer-vision/ssd.ipynb  (single shot multibox          *)
(*       detection: prediction layers, downsample blocks, TinySSD)         *)
(*   src/unnamed/part_000                   (softmax regression from       *)
(*       scratch)                                                          *)
(*                                                                         *)
(* An NDArray is modelled by its shape (a sequence of dimensions) and, for *)
(* the layout of its elements, by the row-major position of an index, the  *)
(* storage order of the array library.  An element is named by the index   *)
(* it has in the array that produced it.                                   *)
(***************************************************************************)
EXTENDS Integers, Sequences, FiniteSets, Bags, TLC

(***************************************************************************)
(* Bounds of the model.                                                    *)
(***************************************************************************)
\* the largest num_classes a TinySSD is built with
MaxClasses == 2

\* the largest number of rows and of columns of a matrix given to softmax
MaxRows == 2

MaxCols == 2

(***************************************************************************)
(* NDArray shapes and row-major indexing.                                   *)
(***************************************************************************)
\* the value of a name not bound yet ([None] * 5)
None == << >>

\* the result of a call that raised instead of returning
Raised == << -1 >>

IsShape(s) == s # None /\ s # Raised

RECURSIVE Prod(_)
Prod(s) == IF s = << >> THEN 1 ELSE Head(s) * Prod(Tail(s))

RECURSIVE SumSeq(_)
SumSeq(s) == IF s = << >> THEN 0 ELSE Head(s) + SumSeq(Tail(s))

\* row-major position of index idx in an array of shape s
RECURSIVE RavelTo(_, _, _)
RavelTo(s, idx, k) ==
    IF k = 0 THEN 0 ELSE RavelTo(s, idx, k - 1) * s[k] + idx[k]

Ravel(s, idx) == RavelTo(s, idx, Len(s))

\* the index at row-major position n of an array of shape s
Unravel(s, n) ==
    [k \in 1..Len(s) |-> (n \div Prod(SubSeq(s, k + 1, Len(s)))) % s[k]]

(***************************************************************************)
(* NDArray operations used by the notebook.                                *)
(***************************************************************************)
\* X.transpose(axes): dimension k of the result is dimension axes[k] of X
TransposeShape(s, axes) == [k \in 1..Len(s) |-> s[axes[k] + 1]]

\* where the element at idx of X sits in X.transpose(axes)
TransposeIdx(idx, axes) == [k \in 1..Len(idx) |-> idx[axes[k] + 1]]

\* X.flatten(): (d1, d2, ..., dn) becomes (d1, d2 * ... * dn)
FlattenShape(s) == << s[1], Prod(Tail(s)) >>

FlattenIdx(s, idx) == << idx[1], Ravel(Tail(s), Tail(idx)) >>

\* nd.concat(*arrays, dim=1): every dimension but dim 1 must agree
ConcatOk(shapes) ==
    /\ shapes # << >>
    /\ \A k \in 1..Len(shapes) :
          /\ IsShape(shapes[k])
          /\ Len(shapes[k]) = Len(shapes[1])
          /\ Len(shapes[k]) >= 2
          /\ \A d \in 1..Len(shapes[k]) : d # 2 => shapes[k][d] = shapes[1][d]

ConcatShape(shapes) ==
    IF ~ConcatOk(shapes) THEN Raised
    ELSE [d \in 1..Len(shapes[1]) |->
            IF d = 2 THEN SumSeq([k \in 1..Len(shapes) |-> shapes[k][2]])
            ELSE shapes[1][d]]

\* where the element at idx of the k-th array (1-based k) sits in the result
ConcatIdx(shapes, k, idx) ==
    [d \in 1..Len(idx) |->
        IF d = 2 THEN SumSeq([m \in 1..(k - 1) |-> shapes[m][2]]) + idx[2]
        ELSE idx[d]]

\* X.reshape((0, -1, last)): 0 keeps the batch dimension, -1 is inferred
ReshapeShape(s, last) ==
    IF ~IsShape(s) \/ last <= 0 \/ Prod(Tail(s)) % last # 0 THEN Raised
    ELSE << s[1], Prod(Tail(s)) \div last, last >>

\* reshape keeps the row-major order of the elements
ReshapeIdx(s, t, idx) == Unravel(t, Ravel(s, idx))

(***************************************************************************)
(* Layers of the neural-network library, as the notebook configures them.  *)
(* A Conv2D is built without in_channels: the number of input channels is  *)
(* inferred at the first call, so a fresh layer accepts any.               *)
(***************************************************************************)
Conv2D(channels, kernel_size, padding) ==
    [kind |-> "Conv2D", channels |-> channels, kernel_size |-> kernel_size,
     strides |-> 1, padding |-> padding]

BatchNorm(in_channels) == [kind |-> "BatchNorm", in_channels |-> in_channels]

Activation(act) == [kind |-> "Activation", act |-> act]

\* nn.MaxPool2D(pool_size): strides default to pool_size, padding to 0
MaxPool2D(pool_size) ==
    [kind |-> "MaxPool2D", pool_size |-> pool_size, strides |-> pool_size,
     padding |-> 0]

GlobalMaxPool2D == [kind |-> "GlobalMaxPool2D"]

Sequential(layers) == [kind |-> "Sequential", layers |-> layers]

\* output length of a sliding window along one spatial dimension
WindowOut(n, kernel, stride, padding) ==
    (n + 2 * padding - kernel) \div stride + 1

\* block(x): the shape of the output of a layer for an input of shape x;
\* a window larger than the padded input, or a BatchNorm whose in_channels
\* differs from the input's channels, raises
RECURSIVE Call(_, _)
Call(blk, x) ==
    IF ~IsShape(x) \/ Len(x) # 4 THEN Raised
    ELSE CASE blk.kind = "Conv2D" ->
                IF \/ x[3] + 2 * blk.padding < blk.kernel_size
                   \/ x[4] + 2 * blk.padding < blk.kernel_size
                THEN Raised
                ELSE << x[1], blk.channels,
                        WindowOut(x[3], blk.kernel_size, blk.strides, blk.padding),
                        WindowOut(x[4], blk.kernel_size, blk.strides, blk.padding) >>
           [] blk.kind = "BatchNorm" ->
                IF x[2] # blk.in_channels THEN Raised ELSE x
           [] blk.kind = "Activation" -> x
           [] blk.kind = "MaxPool2D" ->
                IF \/ x[3] + 2 * blk.padding < blk.pool_size
                   \/ x[4] + 2 * blk.padding < blk.pool_size
                THEN Raised
                ELSE << x[1], x[2],
                        WindowOut(x[3], blk.pool_size, blk.strides, blk.padding),
                        WindowOut(x[4], blk.pool_size, blk.strides, blk.padding) >>
           [] blk.kind = "GlobalMaxPool2D" -> << x[1], x[2], 1, 1 >>
           [] blk.kind = "Sequential" ->
                IF blk.layers = << >> THEN x
                ELSE Call(Sequential(Tail(blk.layers)), Call(Head(blk.layers), x))

(***************************************************************************)
(* The layers and blocks defined by the SSD notebook.                      *)
(***************************************************************************)
\* a category layer that forgets the background category
cls_predictor_NoBackground(num_anchors_, num_classes) ==
    Conv2D(num_anchors_ * num_classes, 3, 1)

cls_predictor(num_anchors_, num_classes) ==
    Conv2D(num_anchors_ * (num_classes + 1), 3, 1)

\* an offset layer built without padding
bbox_predictor_NoPadding(num_anchors_) == Conv2D(num_anchors_ * 4, 3, 0)

bbox_predictor(num_anchors_) == Conv2D(num_anchors_ * 4, 3, 1)

\* a downsample block whose convolutions have no padding
down_sample_blk_NoPadding(num_channels) ==
    Sequential(<< Conv2D(num_channels, 3, 0), BatchNorm(num_channels),
                  Activation("relu"),
                  Conv2D(num_channels, 3, 0), BatchNorm(num_channels),
                  Activation("relu"),
                  MaxPool2D(2) >>)

\* for _ in range(2): blk.add(Conv2D, BatchNorm, Activation); blk.add(MaxPool2D(2))
down_sample_blk(num_channels) ==
    Sequential(<< Conv2D(num_channels, 3, 1), BatchNorm(num_channels),
                  Activation("relu"),
                  Conv2D(num_channels, 3, 1), BatchNorm(num_channels),
                  Activation("relu"),
                  MaxPool2D(2) >>)

\* a base network with a fourth block: for num_filters in [16, 32, 64, 128]
base_net_FourBlocks ==
    Sequential(<< down_sample_blk(16), down_sample_blk(32), down_sample_blk(64),
                  down_sample_blk(128) >>)

\* for num_filters in [16, 32, 64]: blk.add(down_sample_blk(num_filters))
base_net ==
    Sequential(<< down_sample_blk(16), down_sample_blk(32), down_sample_blk(64) >>)

get_blk(i_) ==
    IF i_ = 0 THEN base_net
    ELSE IF i_ = 4 THEN GlobalMaxPool2D
    ELSE down_sample_blk(128)

\* flatten_pred(pred) = pred.transpose((0, 2, 3, 1)).flatten()
flatten_pred(pred) ==
    IF ~IsShape(pred) \/ Len(pred) # 4 THEN Raised
    ELSE FlattenShape(TransposeShape(pred, << 0, 2, 3, 1 >>))

\* flatten_pred without the transpose: the channel stays the slowest dimension
flatten_pred_idx_NoTranspose(pred, idx) == FlattenIdx(pred, idx)

\* where the element at idx of pred sits in flatten_pred(pred)
flatten_pred_idx(pred, idx) ==
    FlattenIdx(TransposeShape(pred, << 0, 2, 3, 1 >>),
               TransposeIdx(idx, << 0, 2, 3, 1 >>))

\* nd.concat along dim 0: the arrays must agree on dim 1
ConcatDimZero(shapes) ==
    IF \E k \in 1..Len(shapes) : ~IsShape(shapes[k]) \/ shapes[k][2] # shapes[1][2]
    THEN Raised
    ELSE << SumSeq([k \in 1..Len(shapes) |-> shapes[k][1]]), shapes[1][2] >>

\* a concat_preds that concatenates on the batch dimension
concat_preds_DimZero(preds) ==
    ConcatDimZero([k \in 1..Len(preds) |-> flatten_pred(preds[k])])

\* concat_preds(preds) = nd.concat(*[flatten_pred(p) for p in preds], dim=1)
concat_preds(preds) ==
    ConcatShape([k \in 1..Len(preds) |-> flatten_pred(preds[k])])

\* where the element at idx of preds[k] (1-based k) sits in concat_preds(preds)
concat_preds_idx(preds, k, idx) ==
    ConcatIdx([m \in 1..Len(preds) |-> flatten_pred(preds[m])], k,
              flatten_pred_idx(preds[k], idx))

\* an anchor generator pairing every size with every ratio
MultiBoxPrior_AllPairs(Y, size, ratio) ==
    IF ~IsShape(Y) \/ Len(Y) # 4 THEN Raised
    ELSE << 1, Y[3] * Y[4] * (Len(size) * Len(ratio)), 4 >>

\* contrib.ndarray.MultiBoxPrior(Y, sizes=size, ratios=ratio): for each of the
\* h * w cells, len(size) + len(ratio) - 1 anchor boxes of 4 coordinates
MultiBoxPrior(Y, size, ratio) ==
    IF ~IsShape(Y) \/ Len(Y) # 4 THEN Raised
    ELSE << 1, Y[3] * Y[4] * (Len(size) + Len(ratio) - 1), 4 >>

\* where MultiBoxPrior(Y, ...) puts anchor box a (0-based) of the cell (y, x)
\* of Y: the boxes of one cell are adjacent, the cells in row-major order
MultiBoxPrior_idx(Y, size, ratio, y, x, a) ==
    << 0, (y * Y[4] + x) * (Len(size) + Len(ratio) - 1) + a >>

\* a blk_forward that generates the anchor boxes of the sizes alone
blk_forward_NoRatios(X_, blk, size, ratio, cls_p, bbox_p) ==
    LET Y == Call(blk, X_)
        r == << Y, MultiBoxPrior(Y, size, << 1000 >>), Call(cls_p, Y), Call(bbox_p, Y) >>
    IN  IF \E k \in 1..4 : r[k] = Raised THEN Raised ELSE r

\* a blk_forward whose predictors read the module's input X, not its output Y
blk_forward_PredictOnInput(X_, blk, size, ratio, cls_p, bbox_p) ==
    LET Y == Call(blk, X_)
        r == << Y, MultiBoxPrior(Y, size, ratio), Call(cls_p, X_), Call(bbox_p, X_) >>
    IN  IF \E k \in 1..4 : r[k] = Raised THEN Raised ELSE r

\* forward(x, block): block.initialize(); return block(x)
forward(x, block) == Call(block, x)

\* blk_forward returns (Y, anchors, cls_preds, bbox_preds); an exception of
\* any of its four calls propagates
blk_forward(X_, blk, size, ratio, cls_p, bbox_p) ==
    LET Y == Call(blk, X_)
        r == << Y, MultiBoxPrior(Y, size, ratio), Call(cls_p, Y), Call(bbox_p, Y) >>
    IN  IF \E k \in 1..4 : r[k] = Raised THEN Raised ELSE r

(***************************************************************************)
(* The anchor-box table of the notebook.  Sizes and ratios are decimal     *)
(* literals; the model keeps them in thousandths (0.272 is 272).           *)
(***************************************************************************)
\* the table with the second sizes cut, not rounded, to three decimals
SizesCell_Truncated ==
    << << 200, 272 >>, << 370, 446 >>, << 540, 619 >>, << 710, 790 >>,
       << 880, 961 >> >>

SizesCell ==
    << << 200, 272 >>, << 370, 447 >>, << 540, 619 >>, << 710, 790 >>,
       << 880, 961 >> >>

\* [[1, 2, 0.5]] * 5
RatiosCell == [k \in 1..5 |-> << 1000, 2000, 500 >>]

(***************************************************************************)
(* TinySSD.  Attribute 'blk_%d' % i is modelled by the pair <<"blk", i>>.   *)
(***************************************************************************)
AttrNames == { << n, k >> : n \in {"blk", "cls", "bbox"}, k \in 0..4 }

\* TinySSD.__init__: for i in range(5): setattr blk_i, cls_i, bbox_i
TinySSD(num_classes, num_anchors_) ==
    [num_classes |-> num_classes,
     attrs |-> [a \in AttrNames |->
                  IF a[1] = "blk" THEN get_blk(a[2])
                  ELSE IF a[1] = "cls" THEN cls_predictor(num_anchors_, num_classes)
                  ELSE bbox_predictor(num_anchors_)]]

\* the return expression of TinySSD.forward
forward_return(self, anchors_, cls_preds_, bbox_preds_) ==
    LET r == << ConcatShape(anchors_),
                ReshapeShape(concat_preds(cls_preds_), self.num_classes + 1),
                concat_preds(bbox_preds_) >>
    IN  IF \E k \in 1..3 : r[k] = Raised THEN Raised ELSE r

(***************************************************************************)
(* The softmax of src/unnamed/part_000 on 32-bit floats.                   *)
(*                                                                         *)
(* The entries of X are whole numbers.  A float is zero, infinite, not a   *)
(* number, or finite and positive: a finite value is kept exactly, as the  *)
(* quotient of two sums of powers of e, each sum a bag of exponents        *)
(* (rounding is left out).  exp overflows to infinity from 89 on           *)
(* (e^88.73 is the largest float) and underflows to zero from -104 down    *)
(* (e^-103.98 is half the smallest float).  The finite entries of the      *)
(* model are small, so a sum of finite values stays finite.                *)
(***************************************************************************)
ExpOverflow == 89

ExpUnderflow == -104

FZero == [k |-> "zero"]

FInf == [k |-> "inf"]

FNaN == [k |-> "nan"]

\* the sum of e^n over the bag num, divided by the sum of e^d over the bag den
FFin(num, den) == [k |-> "fin", num |-> num, den |-> den]

\* the bag of the number 1 = e^0
BagOne == SetToBag({0})

\* exp of the whole number x
FExp(x) ==
    IF x >= ExpOverflow THEN FInf
    ELSE IF x <= ExpUnderflow THEN FZero
    ELSE FFin(SetToBag({x}), BagOne)

\* a + b for non-negative floats; finite operands share their denominator
FAdd(a, b) ==
    IF a.k = "nan" \/ b.k = "nan" THEN FNaN
    ELSE IF a.k = "inf" \/ b.k = "inf" THEN FInf
    ELSE IF a.k = "zero" THEN b
    ELSE IF b.k = "zero" THEN a
    ELSE FFin(a.num (+) b.num, a.den)

\* a / b for non-negative floats; finite operands have denominator 1
FDiv(a, b) ==
    IF a.k = "nan" \/ b.k = "nan" THEN FNaN
    ELSE IF a.k = "inf" THEN (IF b.k = "inf" THEN FNaN ELSE FInf)
    ELSE IF a.k = "zero" THEN (IF b.k = "zero" THEN FNaN ELSE FZero)
    ELSE IF b.k = "zero" THEN FInf
    ELSE IF b.k = "inf" THEN FZero
    ELSE FFin(a.num, b.num)

\* v >= 0, which no comparison with a NaN satisfies
FNonNeg(v) == v.k # "nan"

\* v = 1
FIsOne(v) == v.k = "fin" /\ v.num = v.den

RECURSIVE FSum(_)
FSum(row) == IF Len(row) = 1 THEN row[1] ELSE FAdd(row[1], FSum(Tail(row)))

\* A.sum(axis=1, keepdims=True): one column holding the sum of each row
SumAxis1KeepDims(A) == [r \in 1..Len(A) |-> << FSum(A[r]) >>]

\* A.sum(axis=1): the sum of each row
SumAxis1(A) == [r \in 1..Len(A) |-> FSum(A[r])]

\* A / B with B broadcast along the dimensions of length 1
BroadcastDiv(A, B) ==
    [r \in 1..Len(A) |->
        [c \in 1..Len(A[r]) |->
            FDiv(A[r][c], B[IF Len(B) = 1 THEN 1 ELSE r]
                           [IF Len(B[1]) = 1 THEN 1 ELSE c])]]

\* def softmax(X): X_exp = X.exp(); partition = X_exp.sum(axis=1,
\* keepdims=True); return X_exp / partition
softmax(X_) ==
    LET X_exp == [r \in 1..Len(X_) |-> [c \in 1..Len(X_[r]) |-> FExp(X_[r][c])]]
        partition == SumAxis1KeepDims(X_exp)
    IN  BroadcastDiv(X_exp, partition)

(***************************************************************************)
(* State.                                                                  *)
(***************************************************************************)
VARIABLES
    pc,          \* where the forward pass of net stands
    sizes,       \* the notebook's global sizes
    ratios,      \* the notebook's global ratios
    num_anchors, \* the notebook's global num_anchors
    net,         \* the TinySSD instance
    input,       \* the mini-batch net was called with
    X,           \* forward's X: the feature map fed to the next module
    i,           \* forward's loop index
    anchors,     \* forward's anchors list
    cls_preds,   \* forward's cls_preds list
    bbox_preds,  \* forward's bbox_preds list
    out,         \* what the call returned
    cell,        \* the demonstration cell run last
    call,        \* the call that cell made: the function and its arguments
    shown,       \* the value that cell displayed
    Y1,          \* the notebook's global Y1
    Y2,          \* the notebook's global Y2
    sm_pc,       \* where the softmax notebook's cell 13 stands
    sm_X,        \* the matrix X of the softmax notebook
    X_prob,      \* X_prob = softmax(X)
    row_sums,    \* X_prob.sum(axis=1)
    prog,        \* the training cell or function that runs
    t_pc,        \* the statement it stands at
    epoch,       \* the loop variable epoch
    num_epochs,  \* the number of epochs of the for statement
    train_iter,  \* the training iterator: its batches and its position
    test_iter,   \* the test iterator of train_ch3 and evaluate_accuracy
    trainer,     \* train_ch3's argument trainer: "None" or "Trainer"
    acc_sum,     \* acc_sum (train_acc_sum in train_ch3)
    mae_sum,     \* mae_sum
    n_,          \* n
    m_,          \* m
    train_l_sum, \* train_l_sum
    live,        \* the batch each local of the loop body was computed from
    log,         \* the steps taken in this epoch, as << batch, step >>
    params,      \* the parameter updates applied to the model so far
    e_pc,        \* where the call of evaluate_accuracy stands
    e_acc_sum,   \* evaluate_accuracy's acc_sum
    e_n,         \* evaluate_accuracy's n
    test_acc,    \* what evaluate_accuracy returned
    evals,       \* the calls of evaluate_accuracy in this epoch
    printed,     \* the epochs (epoch + 1) a line was printed for
    line,        \* the line printed last
    exc,         \* the exception that left the loop, "none" while it runs
    d_pc,        \* where the call of display stands
    output,      \* display's argument output: the rows of predict(X)
    threshold,   \* display's argument threshold
    row,         \* the row display's for statement stands at
    drawn,       \* the boxes show_bboxes drew, in the order drawn
    l_pc,        \* where the loss cell stands
    bbox,        \* the arrays bbox_preds, bbox_labels, bbox_masks of a batch
    l_bbox,      \* the bounding-box term of calc_loss, per example
    mae          \* bbox_eval(bbox_preds, bbox_labels, bbox_masks)

ssd_vars == << pc, sizes, ratios, num_anchors, net, input, X, i, anchors,
               cls_preds, bbox_preds, out >>

demo_vars == << cell, call, shown, Y1, Y2 >>

sm_vars == << sm_pc, sm_X, X_prob, row_sums >>

train_vars == << prog, t_pc, epoch, num_epochs, train_iter, test_iter, trainer,
                 acc_sum, mae_sum, n_, m_, train_l_sum, live, log, params, e_pc,
                 e_acc_sum, e_n, test_acc, evals, printed, line, exc >>

disp_vars == << d_pc, output, threshold, row, drawn >>

loss_vars == << l_pc, bbox, l_bbox, mae >>

vars == << ssd_vars, demo_vars, sm_vars, train_vars, disp_vars, loss_vars >>

\* mini-batches the model is called with: (batch, 3, height, width)
BatchSizes == {1, 2, 32}

InputSides == {32, 64, 100, 128, 256}

Inputs == { << b, 3, h, w >> : b \in BatchSizes, h \in InputSides, w \in InputSides }

\* mini-batches small enough to follow every element of the predictions
LayoutInputs == { << b, 3, h, w >> : b \in {1, 2}, h \in {64, 72, 100}, w \in {64, 72, 100} }

NoneList == [k \in 1..5 |-> None]

\* the softmax notebook has not run
SoftmaxIdle ==
    /\ sm_pc = "idle"
    /\ sm_X = None
    /\ X_prob = None
    /\ row_sums = None

\* no batch yet: the locals of the loop body are unbound
NoLive == [preds |-> 0, labels |-> 0, l |-> << 0, 0 >>, grad |-> << 0, 0 >>]

NoExc == [type |-> "none", at |-> "none"]

NoIter == [batches |-> 0, cursor |-> 0, resets |-> 0]

\* no training cell has run
TrainIdle ==
    /\ prog = "none"
    /\ t_pc = "idle"
    /\ epoch = -1
    /\ num_epochs = 0
    /\ train_iter = NoIter
    /\ test_iter = NoIter
    /\ trainer = "None"
    /\ acc_sum = 0
    /\ mae_sum = 0
    /\ n_ = 0
    /\ m_ = 0
    /\ train_l_sum = 0
    /\ live = NoLive
    /\ log = << >>
    /\ params = 0
    /\ e_pc = "idle"
    /\ e_acc_sum = 0
    /\ e_n = 0
    /\ test_acc = None
    /\ evals = 0
    /\ printed = << >>
    /\ line = None
    /\ exc = NoExc

\* display has not been called
DisplayIdle ==
    /\ d_pc = "idle"
    /\ output = << >>
    /\ threshold = 0
    /\ row = 0
    /\ drawn = << >>

\* the loss cell has not run
LossIdle ==
    /\ l_pc = "idle"
    /\ bbox = None
    /\ l_bbox = None
    /\ mae = None

\* the demonstration cells have not run
DemoIdle ==
    /\ cell = "start"
    /\ call = [fn |-> "none"]
    /\ shown = None
    /\ Y1 = None
    /\ Y2 = None

\* the calls of the demonstration cells, with the arguments the notebook gives
Cell3Call ==
    [fn |-> "cls_predictor", x1 |-> << 2, 8, 20, 20 >>, a1 |-> 5,
     x2 |-> << 2, 16, 10, 10 >>, a2 |-> 3, q |-> 10]

Cell8Call == [fn |-> "down_sample_blk", x |-> << 2, 3, 20, 20 >>, num_channels |-> 10]

Cell9Call == [fn |-> "base_net", x |-> << 2, 3, 256, 256 >>]

\* the prediction layer cell 3 builds for a anchor boxes
Predictor(c, a) ==
    IF c.fn = "cls_predictor" THEN cls_predictor(a, c.q) ELSE bbox_predictor(a)

\* the state after cells 1 to 13 ran as written, and net = TinySSD(num_classes)
Init ==
    /\ SoftmaxIdle
    /\ TrainIdle
    /\ DisplayIdle
    /\ LossIdle
    /\ cell = "cell9"
    /\ call = Cell9Call
    /\ shown = forward(Cell9Call.x, base_net)
    /\ Y1 = forward(Cell3Call.x1, Predictor(Cell3Call, Cell3Call.a1))
    /\ Y2 = forward(Cell3Call.x2, Predictor(Cell3Call, Cell3Call.a2))
    /\ pc = "idle"
    /\ sizes = SizesCell
    /\ ratios = RatiosCell
    /\ num_anchors = Len(SizesCell[1]) + Len(RatiosCell[1]) - 1
    /\ \E q \in 1..MaxClasses :
          net = TinySSD(q, Len(SizesCell[1]) + Len(RatiosCell[1]) - 1)
    /\ input = None
    /\ X = None
    /\ i = 0
    /\ anchors = NoneList
    /\ cls_preds = NoneList
    /\ bbox_preds = NoneList
    /\ out = None

\* net(X): forward starts with three lists of five None
NetCall(batches) ==
    /\ pc \in {"idle", "done", "raised"}
    /\ \E x \in batches : input' = x /\ X' = x
    /\ i' = 0
    /\ anchors' = NoneList
    /\ cls_preds' = NoneList
    /\ bbox_preds' = NoneList
    /\ out' = None
    /\ pc' = "loop"
    /\ UNCHANGED << sizes, ratios, num_anchors, net >>
    /\ UNCHANGED << demo_vars, sm_vars, train_vars, disp_vars, loss_vars >>

\* one iteration of for i in range(5)
LoopBody ==
    /\ pc = "loop"
    /\ i < 5
    /\ LET r == blk_forward(X, net.attrs[<< "blk", i >>], sizes[i + 1],
                            ratios[i + 1], net.attrs[<< "cls", i >>],
                            net.attrs[<< "bbox", i >>])
       IN  IF r = Raised
           THEN /\ pc' = "raised"
                /\ UNCHANGED << X, i, anchors, cls_preds, bbox_preds >>
           ELSE /\ X' = r[1]
                /\ anchors' = [anchors EXCEPT ![i + 1] = r[2]]
                /\ cls_preds' = [cls_preds EXCEPT ![i + 1] = r[3]]
                /\ bbox_preds' = [bbox_preds EXCEPT ![i + 1] = r[4]]
                /\ i' = i + 1
                /\ pc' = "loop"
    /\ UNCHANGED << sizes, ratios, num_anchors, net, input, out >>
    /\ UNCHANGED << demo_vars, sm_vars, train_vars, disp_vars, loss_vars >>

\* the return statement of forward
Return ==
    /\ pc = "loop"
    /\ i = 5
    /\ LET r == forward_return(net, anchors, cls_preds, bbox_preds)
       IN  IF r = Raised
           THEN pc' = "raised" /\ out' = out
           ELSE pc' = "done" /\ out' = r
    /\ UNCHANGED << sizes, ratios, num_anchors, net, input, X, i, anchors,
                    cls_preds, bbox_preds >>
    /\ UNCHANGED << demo_vars, sm_vars, train_vars, disp_vars, loss_vars >>

Next == NetCall(Inputs) \/ LoopBody \/ Return

Spec == Init /\ [][Next]_vars

\* the same program, called with the small mini-batches
NextLayout == NetCall(LayoutInputs) \/ LoopBody \/ Return

SpecLayout == Init /\ [][NextLayout]_vars

(***************************************************************************)
(* The demonstration cells of the layers, run in the order of the          *)
(* notebook, on arguments drawn from bounded sets that hold the notebook's *)
(* own.  These cells run before sizes, ratios and net exist.               *)
(***************************************************************************)
\* the largest batch size of a demonstration array
MaxDemoBatch == 2

\* (channels, height, width) of the two arrays of cell 3
Cell3Arrays ==
    { << << 8, 20, 20 >>, << 16, 10, 10 >> >>,
      << << 8, 2, 3 >>, << 16, 1, 1 >> >>,
      << << 3, 1, 2 >>, << 3, 3, 1 >> >> }

\* (anchor boxes of Y1, anchor boxes of Y2, object categories) of cell 3
Cell3Anchors == { << 5, 3, 10 >>, << 1, 2, 1 >> }

Cell3Calls ==
    { [fn |-> f, x1 |-> << b1 >> \o xs[1], a1 |-> aq[1],
       x2 |-> << b2 >> \o xs[2], a2 |-> aq[2], q |-> aq[3]] :
        f \in {"cls_predictor", "bbox_predictor"},
        b1 \in 1..MaxDemoBatch, b2 \in 1..MaxDemoBatch,
        xs \in Cell3Arrays, aq \in Cell3Anchors }

\* (input channels, num_channels) of cell 8
Cell8Channels == { << 3, 10 >>, << 10, 10 >>, << 10, 128 >> }

Cell8Calls ==
    { [fn |-> "down_sample_blk", x |-> << b, cn[1], h, w >>, num_channels |-> cn[2]] :
        b \in 1..MaxDemoBatch, cn \in Cell8Channels, h \in {1, 5, 20}, w \in {1, 5, 20} }

Cell9Calls ==
    { [fn |-> "base_net", x |-> << b, 3, h, w >>] :
        b \in 1..MaxDemoBatch, h \in {7, 8, 100, 256}, w \in {8, 256} }

NoCall == [fn |-> "none"]

InitLayers ==
    /\ SoftmaxIdle
    /\ TrainIdle
    /\ DisplayIdle
    /\ LossIdle
    /\ cell = "start"
    /\ call = NoCall
    /\ shown = None
    /\ Y1 = None
    /\ Y2 = None
    /\ pc = "idle"
    /\ sizes = None
    /\ ratios = None
    /\ num_anchors = 0
    /\ net = None
    /\ input = None
    /\ X = None
    /\ i = 0
    /\ anchors = NoneList
    /\ cls_preds = NoneList
    /\ bbox_preds = NoneList
    /\ out = None

\* Y1 = forward(x1, predictor); Y2 = forward(x2, predictor); (Y1.shape, Y2.shape)
Cell3 ==
    /\ cell = "start"
    /\ \E c \in Cell3Calls :
          /\ call' = c
          /\ Y1' = forward(c.x1, Predictor(c, c.a1))
          /\ Y2' = forward(c.x2, Predictor(c, c.a2))
          /\ shown' = << forward(c.x1, Predictor(c, c.a1)),
                         forward(c.x2, Predictor(c, c.a2)) >>
    /\ cell' = "cell3"
    /\ UNCHANGED << ssd_vars, sm_vars, train_vars, disp_vars, loss_vars >>

\* concat_preds([Y1, Y2]).shape
Cell6 ==
    /\ cell = "cell3"
    /\ call' = [fn |-> "concat_preds", preds |-> << Y1, Y2 >>]
    /\ shown' = concat_preds(<< Y1, Y2 >>)
    /\ cell' = "cell6"
    /\ UNCHANGED << ssd_vars, sm_vars, train_vars, disp_vars, loss_vars, Y1, Y2 >>

\* forward(x, down_sample_blk(num_channels)).shape
Cell8 ==
    /\ cell = "cell6"
    /\ \E c \in Cell8Calls :
          call' = c /\ shown' = forward(c.x, down_sample_blk(c.num_channels))
    /\ cell' = "cell8"
    /\ UNCHANGED << ssd_vars, sm_vars, train_vars, disp_vars, loss_vars, Y1, Y2 >>

\* forward(x, base_net()).shape
Cell9 ==
    /\ cell = "cell8"
    /\ \E c \in Cell9Calls : call' = c /\ shown' = forward(c.x, base_net)
    /\ cell' = "cell9"
    /\ UNCHANGED << ssd_vars, sm_vars, train_vars, disp_vars, loss_vars, Y1, Y2 >>

NextLayers == Cell3 \/ Cell6 \/ Cell8 \/ Cell9

SpecLayers == InitLayers /\ [][NextLayers]_vars

(***************************************************************************)
(* Where an element of a prediction layer's output sits in what forward    *)
(* returns.                                                                *)
(***************************************************************************)
\* the element at idx = (b, channel, y, x) of cls_preds_[k] (1-based k), in
\* concat_preds(cls_preds_).reshape((0, -1, num_classes + 1))
cls_out_idx(self, cls_preds_, k, idx) ==
    LET flat == concat_preds(cls_preds_)
    IN  ReshapeIdx(flat, ReshapeShape(flat, self.num_classes + 1),
                   concat_preds_idx(cls_preds_, k, idx))

\* C1: TinySSD(num_classes=1) called with a batch of shape (32, 3, 256, 256)
\* returns anchors of shape (1, 5444, 4), class predictions of shape
\* (32, 5444, 2) and bounding-box predictions of shape (32, 21776), and
\* 5444 = (32^2 + 16^2 + 8^2 + 4^2 + 1) * 4.
C1_DemoShapes ==
    (pc = "done" /\ net.num_classes = 1 /\ input = << 32, 3, 256, 256 >>)
        => /\ out = << << 1, 5444, 4 >>, << 32, 5444, 2 >>, << 32, 21776 >> >>
           /\ 5444 = (32 * 32 + 16 * 16 + 8 * 8 + 4 * 4 + 1) * 4

C1_Witness ==
    pc = "done" /\ net.num_classes = 1 /\ input = << 32, 3, 256, 256 >>

\* number of rows the scales before the k-th (1-based) take in the reshaped
\* class predictions: one row for each anchor box of each of their cells
RowsBefore(preds, k, a) ==
    SumSeq([m \in 1..(k - 1) |-> preds[m][3] * preds[m][4] * a])

\* C3: for one scale, channel i*(q+1)+j of the category prediction layer at
\* position (y, x) is, after flatten_pred and the reshape to (batch, -1, q+1),
\* at index [b, (y*w + x)*a + i, j]; in what forward returns for the five
\* scales the same holds counted from the first row of the scale (the rows
\* of the earlier scales come first), so every row holds the q+1 category
\* scores of one anchor box of one cell.
C3_ChannelLayout ==
    pc = "done" =>
        \A k \in 1..5 :
            LET s == cls_preds[k]
                a == num_anchors
                q == net.num_classes
                off == RowsBefore(cls_preds, k, a)
            IN  \A b \in 0..(s[1] - 1), y \in 0..(s[3] - 1), x \in 0..(s[4] - 1),
                   ia \in 0..(a - 1), j \in 0..q :
                    /\ cls_out_idx(net, << s >>, 1, << b, ia * (q + 1) + j, y, x >>)
                            = << b, (y * s[4] + x) * a + ia, j >>
                    /\ cls_out_idx(net, cls_preds, k, << b, ia * (q + 1) + j, y, x >>)
                            = << b, off + (y * s[4] + x) * a + ia, j >>

C3_Witness ==
    /\ pc = "done"
    /\ net.num_classes = 2
    /\ cls_preds[1] = << 2, 12, 12, 9 >>
    /\ out[2] = << 2, 4 * (12 * 9 + 6 * 4 + 3 * 2 + 1 + 1), 3 >>

\* height or width of the feature map of module k (0-based) for an input of
\* height or width n: n halved three times by the base network, once more by
\* each of modules 1 to 3, and 1 after the global pooling of module 4
FeatSide(n, k) == IF k = 4 THEN 1 ELSE n \div (2 ^ (k + 3))

\* channels of the feature map of module k (0-based)
FeatChannels(k) == IF k = 0 THEN 64 ELSE 128

\* C9: TinySSD holds exactly the modules blk_0..blk_4 with a cls_i and a
\* bbox_i each; blk_0 is the base network, blk_1..blk_3 are
\* down_sample_blk(128), blk_4 is the global max pooling; forward fills the
\* scales in index order, feeds the feature map of module i to module i+1,
\* and applies both predictors and the anchor generator of scale i to the
\* feature map of module i; a 256 x 256 input gives feature maps of side 32,
\* 16, 8, 4 and 1.
C9_FiveModules ==
    /\ DOMAIN net.attrs = { << n, k >> : n \in {"blk", "cls", "bbox"}, k \in 0..4 }
    /\ net.attrs[<< "blk", 0 >>].kind = "Sequential"
    /\ Len(net.attrs[<< "blk", 0 >>].layers) = 3
    /\ \A k \in 1..3 :
          /\ net.attrs[<< "blk", 0 >>].layers[k].kind = "Sequential"
          /\ net.attrs[<< "blk", 0 >>].layers[k].layers[7].kind = "MaxPool2D"
          /\ net.attrs[<< "blk", k >>].kind = "Sequential"
          /\ net.attrs[<< "blk", k >>].layers[1].channels = 128
          /\ net.attrs[<< "blk", k >>].layers[4].channels = 128
          /\ net.attrs[<< "blk", k >>].layers[7].kind = "MaxPool2D"
    /\ net.attrs[<< "blk", 4 >>].kind = "GlobalMaxPool2D"
    /\ pc # "idle" =>
          /\ i \in 0..5
          /\ \A k \in 0..4 :
                IF k < i
                THEN LET fh == FeatSide(input[3], k)
                         fw == FeatSide(input[4], k)
                     IN  /\ anchors[k + 1] = << 1, fh * fw * 4, 4 >>
                         /\ cls_preds[k + 1] =
                                << input[1], 4 * (net.num_classes + 1), fh, fw >>
                         /\ bbox_preds[k + 1] = << input[1], 4 * 4, fh, fw >>
                         /\ k = i - 1 =>
                                X = << input[1], FeatChannels(k), fh, fw >>
                ELSE /\ anchors[k + 1] = None
                     /\ cls_preds[k + 1] = None
                     /\ bbox_preds[k + 1] = None
          /\ (i = 0) => X = input
          /\ (pc = "done") => i = 5
          /\ (i > 0 /\ input[3] = 256 /\ input[4] = 256) =>
                X[3] = << 32, 16, 8, 4, 1 >>[i] /\ X[4] = << 32, 16, 8, 4, 1 >>[i]

C9_Witness ==
    /\ pc = "done"
    /\ input = << 2, 3, 256, 256 >>
    /\ X = << 2, 128, 1, 1 >>
    /\ [k \in 1..5 |-> cls_preds[k][3]] = << 32, 16, 8, 4, 1 >>

\* C10: the first size of scale k (0..4) is 0.2 + 0.17 k, the second is
\* sqrt(s_k * s_(k+1)) rounded to three decimals, with s_5 = 1.05; the table
\* is the same in every state of every forward pass.  (In thousandths: t is
\* the rounding of sqrt(p) when (2t - 1)^2 <= 4p < (2t + 1)^2.)
C10_SizesTable ==
    /\ Len(sizes) = 5
    /\ \A k \in 0..4 :
          LET first == 200 + 170 * k
              next == 200 + 170 * (k + 1)
              t == sizes[k + 1][2]
          IN  /\ Len(sizes[k + 1]) = 2
              /\ sizes[k + 1][1] = first
              /\ (2 * t - 1) * (2 * t - 1) <= 4 * first * next
              /\ 4 * first * next < (2 * t + 1) * (2 * t + 1)

C10_Witness ==
    /\ pc = "done"
    /\ sizes[5] = << 880, 961 >>
    /\ anchors[5] = << 1, 4, 4 >>

(***************************************************************************)
(* Claims about the layers (cells 3 to 9).                                 *)
(***************************************************************************)
\* C4: cls_predictor(a, q) is a 3x3 convolution with padding 1; its output has
\* a*(q+1) channels and the height and width of its input, whatever the
\* input's channels; (2, 8, 20, 20) with a=5, q=10 and (2, 16, 10, 10) with
\* a=3, q=10 give (2, 55, 20, 20) and (2, 33, 10, 10).
C4_ClsPredictor ==
    (cell = "cell3" /\ call.fn = "cls_predictor") =>
        /\ cls_predictor(call.a1, call.q).kind = "Conv2D"
        /\ cls_predictor(call.a1, call.q).kernel_size = 3
        /\ cls_predictor(call.a1, call.q).padding = 1
        /\ Y1 = << call.x1[1], call.a1 * (call.q + 1), call.x1[3], call.x1[4] >>
        /\ Y2 = << call.x2[1], call.a2 * (call.q + 1), call.x2[3], call.x2[4] >>
        /\ call = Cell3Call =>
                shown = << << 2, 55, 20, 20 >>, << 2, 33, 10, 10 >> >>

C4_Witness ==
    /\ cell = "cell3"
    /\ call = Cell3Call
    /\ Y1 = << 2, 55, 20, 20 >>
    /\ Y2 = << 2, 33, 10, 10 >>

\* C5: bbox_predictor(a) outputs 4*a channels, 4 offsets for each of the a
\* anchor boxes of a cell instead of the q+1 categories of cls_predictor, and
\* keeps the height and width of its input.
C5_BboxPredictor ==
    (cell = "cell3" /\ call.fn = "bbox_predictor") =>
        /\ Y1 = << call.x1[1], 4 * call.a1, call.x1[3], call.x1[4] >>
        /\ Y2 = << call.x2[1], 4 * call.a2, call.x2[3], call.x2[4] >>
        /\ bbox_predictor(call.a1).channels * (call.q + 1)
              = cls_predictor(call.a1, call.q).channels * 4

C5_Witness ==
    /\ cell = "cell3"
    /\ call.fn = "bbox_predictor"
    /\ call.x1 = << 2, 8, 20, 20 >>
    /\ call.a1 = 5
    /\ Y1 = << 2, 20, 20, 20 >>

\* elements of one sample of a prediction of shape p = (b, c, h, w)
SampleSize(p) == p[2] * p[3] * p[4]

\* C6: concat_preds of predictions (b, c_k, h_k, w_k) that share the batch
\* size b returns shape (b, sum of h_k*w_k*c_k); the flattened predictions of
\* each input are contiguous and in the order of the list, whatever their
\* channels, heights and widths; Y1 (2, 55, 20, 20) and Y2 (2, 33, 10, 10)
\* give (2, 25300).
C6_ConcatPreds ==
    (cell = "cell6" /\ call.preds[1][1] = call.preds[2][1]) =>
        LET preds == call.preds
            before(k) == SumSeq([m \in 1..(k - 1) |-> SampleSize(preds[m])])
        IN  /\ shown = << preds[1][1], SampleSize(preds[1]) + SampleSize(preds[2]) >>
            /\ \A k \in 1..2 :
                  \A b \in 0..(preds[k][1] - 1), c \in 0..(preds[k][2] - 1),
                     y \in 0..(preds[k][3] - 1), x \in 0..(preds[k][4] - 1) :
                      LET at == concat_preds_idx(preds, k, << b, c, y, x >>)
                      IN  /\ at = << b, before(k) + (y * preds[k][4] + x) * preds[k][2] + c >>
                          /\ at[2] >= before(k)
                          /\ at[2] < before(k) + SampleSize(preds[k])
            /\ preds = << << 2, 55, 20, 20 >>, << 2, 33, 10, 10 >> >> =>
                    shown = << 2, 25300 >>

C6_Witness ==
    /\ cell = "cell6"
    /\ call.preds = << << 2, 55, 20, 20 >>, << 2, 33, 10, 10 >> >>
    /\ shown = << 2, 25300 >>

\* C7: down_sample_blk(c) on an input (b, c_in, h, w) returns
\* (b, c, floor(h/2), floor(w/2)): the two 3x3 padding-1 convolutions keep
\* height and width, the 2x2 max pooling with stride 2 halves them, whatever
\* c_in is; (2, 3, 20, 20) with c=10 gives (2, 10, 10, 10).
C7_DownSample ==
    cell = "cell8" =>
        LET x == call.x
            c == call.num_channels
            blk == down_sample_blk(c)
        IN  /\ \A k \in {1, 4} :
                  /\ blk.layers[k].kind = "Conv2D"
                  /\ blk.layers[k].kernel_size = 3
                  /\ blk.layers[k].padding = 1
            /\ blk.layers[7].kind = "MaxPool2D"
            /\ blk.layers[7].pool_size = 2
            /\ blk.layers[7].strides = 2
            /\ Call(Sequential(SubSeq(blk.layers, 1, 6)), x) = << x[1], c, x[3], x[4] >>
            /\ shown # Raised => shown = << x[1], c, x[3] \div 2, x[4] \div 2 >>
            /\ (x[3] >= 2 /\ x[4] >= 2) => shown # Raised
            /\ call = Cell8Call => shown = << 2, 10, 10, 10 >>

C7_Witness ==
    /\ cell = "cell8"
    /\ call.x = << 2, 10, 5, 20 >>
    /\ call.num_channels = 128
    /\ shown = << 2, 128, 2, 10 >>

\* C8: base_net is three downsample blocks in series with 16, 32 and 64
\* channels, doubling at each step; it divides height and width by 8:
\* (b, 3, 256, 256) gives (b, 64, 32, 32).
C8_BaseNet ==
    cell = "cell9" =>
        LET x == call.x
        IN  /\ base_net.kind = "Sequential"
            /\ Len(base_net.layers) = 3
            /\ \A k \in 1..3 : base_net.layers[k] = down_sample_blk(16 * 2 ^ (k - 1))
            /\ shown # Raised => shown = << x[1], 64, x[3] \div 8, x[4] \div 8 >>
            /\ (x[3] >= 8 /\ x[4] >= 8) => shown # Raised
            /\ (x[3] = 256 /\ x[4] = 256) => shown = << x[1], 64, 32, 32 >>

C8_Witness ==
    /\ cell = "cell9"
    /\ call = Cell9Call
    /\ shown = << 2, 64, 32, 32 >>

(***************************************************************************)
(* The softmax cell: X_prob = softmax(X); X_prob, X_prob.sum(axis=1)       *)
(***************************************************************************)
\* entries of the matrices: ordinary values and the first that overflow and
\* underflow exp
SoftmaxEntries == { ExpUnderflow, -1, 0, 1, ExpOverflow }

Matrices ==
    UNION { [1..n -> [1..m -> SoftmaxEntries]] : n \in 1..MaxRows, m \in 1..MaxCols }

InitSoftmax ==
    /\ TrainIdle
    /\ DisplayIdle
    /\ LossIdle
    /\ sm_pc = "start"
    /\ sm_X \in Matrices
    /\ X_prob = None
    /\ row_sums = None
    /\ cell = "start"
    /\ call = NoCall
    /\ shown = None
    /\ Y1 = None
    /\ Y2 = None
    /\ pc = "idle"
    /\ sizes = None
    /\ ratios = None
    /\ num_anchors = 0
    /\ net = None
    /\ input = None
    /\ X = None
    /\ i = 0
    /\ anchors = NoneList
    /\ cls_preds = NoneList
    /\ bbox_preds = NoneList
    /\ out = None

SoftmaxCell ==
    /\ sm_pc = "start"
    /\ X_prob' = softmax(sm_X)
    /\ row_sums' = SumAxis1(softmax(sm_X))
    /\ sm_pc' = "done"
    /\ UNCHANGED << sm_X, ssd_vars, demo_vars, train_vars, disp_vars, loss_vars >>

NextSoftmax == SoftmaxCell

SpecSoftmax == InitSoftmax /\ [][NextSoftmax]_vars

\* the matrices whose entries exp neither overflows nor underflows
InExpRange(M) ==
    \A r \in 1..Len(M) :
        \A c \in 1..Len(M[r]) : ExpUnderflow < M[r][c] /\ M[r][c] < ExpOverflow

\* what the claim says of softmax(M) = P with row sums S
SoftmaxIsDistribution(M, P, S) ==
    /\ Len(P) = Len(M)
    /\ \A r \in 1..Len(M) :
          /\ Len(P[r]) = Len(M[r])
          /\ \A c \in 1..Len(M[r]) :
                /\ P[r][c] = FDiv(FExp(M[r][c]),
                                   FSum([d \in 1..Len(M[r]) |-> FExp(M[r][d])]))
                /\ FNonNeg(P[r][c])
          /\ FIsOne(S[r])

\* C2: softmax(X) has the shape of X, entry (i, j) is exp(X[i][j]) divided by
\* the sum over k of exp(X[i][k]), every entry is non-negative and every row
\* sums to 1, for any input matrix X.
C2_SoftmaxAnyInput ==
    sm_pc = "done" => SoftmaxIsDistribution(sm_X, X_prob, row_sums)

\* the same for the matrices whose entries exp neither overflows nor underflows
C2_SoftmaxInRange ==
    (sm_pc = "done" /\ InExpRange(sm_X)) =>
        SoftmaxIsDistribution(sm_X, X_prob, row_sums)

C2_InRangeWitness ==
    /\ sm_pc = "done"
    /\ sm_X = << << 1, 0 >>, << -1, -1 >> >>
    /\ FIsOne(row_sums[1])

(***************************************************************************)
(* The training loop of the detection notebook (cell 19).                  *)
(***************************************************************************)
\* the iterators hold at most this many batches
MaxBatches == 2

\* for epoch in range(20)
SsdEpochs == 20

\* if (epoch + 1) % 5 == 0
PrintEvery == 5

\* batch_size = 32
ssd_batch_size == 32

\* cls_labels.size and bbox_labels.size of one batch of 256 x 256 images:
\* MultiBoxTarget gives one category label and four offsets for each of the
\* 5444 anchor boxes of each example
ClsLabelsSize == ssd_batch_size * 5444

BboxLabelsSize == ssd_batch_size * 5444 * 4

\* what cls_eval and bbox_eval may return for a batch, as << cls_eval,
\* bbox_eval >>: no label predicted right and some offset error, or every
\* label right and no offset error
SsdEvals == { << 0, 3 >>, << ClsLabelsSize, 0 >> }

\* a quotient a / b of the accumulated sums, kept exact
Quotient(a, b) == << a, b >>

\* the steps of one iteration of the detection training loop, in the order
\* of the statements of the loop body
SsdSteps == << "forward", "label", "loss", "backward", "step", "accumulate" >>

\* an exception is caught and the loop goes on with the next batch
Raise_Continue(type, at) ==
    /\ t_pc' = "for_batch"
    /\ exc' = [type |-> type, at |-> at]
    /\ UNCHANGED << prog, epoch, num_epochs, train_iter, test_iter, trainer,
                    acc_sum, mae_sum, n_, m_, train_l_sum, live, log, params,
                    e_pc, e_acc_sum, e_n, test_acc, evals, printed, line >>

\* an exception leaves the loop: nothing else changes
Raise(type, at) ==
    /\ t_pc' = "raised"
    /\ exc' = [type |-> type, at |-> at]
    /\ UNCHANGED << prog, epoch, num_epochs, train_iter, test_iter, trainer,
                    acc_sum, mae_sum, n_, m_, train_l_sum, live, log, params,
                    e_pc, e_acc_sum, e_n, test_acc, evals, printed, line >>

\* a library call made at the statement t_pc stands at raises
LibraryRaises == Raise("MXNetError", t_pc)

\* the variables of the other notebooks' cells
other_vars == << ssd_vars, demo_vars, sm_vars, disp_vars, loss_vars >>

\* the variables the statements of a loop body leave alone
loop_params == << prog, num_epochs, test_iter, trainer >>

eval_vars == << e_pc, e_acc_sum, e_n, test_acc, evals >>

\* for epoch in range(20): acc_sum, mae_sum, n, m = 0.0, 0.0, 0, 0
SsdForEpoch ==
    /\ prog = "ssd"
    /\ t_pc = "for_epoch"
    /\ IF epoch + 1 < num_epochs
       THEN /\ epoch' = epoch + 1
            /\ acc_sum' = 0
            /\ mae_sum' = 0
            /\ n_' = 0
            /\ m_' = 0
            /\ log' = << >>
            /\ t_pc' = "reset"
       ELSE /\ t_pc' = "done"
            /\ UNCHANGED << epoch, acc_sum, mae_sum, n_, m_, log >>
    /\ UNCHANGED << loop_params, eval_vars, train_iter, train_l_sum, live,
                    params, printed, line, exc, other_vars >>

\* train_iter.reset()
reset_NoRewind(it) == [it EXCEPT !.resets = @ + 1]

reset(it) == [it EXCEPT !.cursor = 0, !.resets = @ + 1]

SsdReset ==
    /\ prog = "ssd"
    /\ t_pc = "reset"
    /\ \/ /\ train_iter' = reset(train_iter)
          /\ t_pc' = "for_batch"
          /\ UNCHANGED << loop_params, eval_vars, epoch, acc_sum, mae_sum, n_, m_,
                          train_l_sum, live, log, params, printed, line, exc >>
       \/ LibraryRaises
    /\ UNCHANGED other_vars

\* for batch in train_iter: the next batch, or the end of the epoch
SsdForBatch ==
    /\ prog = "ssd"
    /\ t_pc = "for_batch"
    /\ \/ /\ IF train_iter.cursor < train_iter.batches
             THEN /\ train_iter' = [train_iter EXCEPT !.cursor = @ + 1]
                  /\ t_pc' = "forward"
             ELSE /\ t_pc' = "if_print"
                  /\ UNCHANGED train_iter
          /\ UNCHANGED << loop_params, eval_vars, epoch, acc_sum, mae_sum, n_, m_,
                          train_l_sum, live, log, params, printed, line, exc >>
       \/ LibraryRaises
    /\ UNCHANGED other_vars

\* anchors, cls_preds, bbox_preds = net(X)
SsdForward ==
    /\ prog = "ssd"
    /\ t_pc = "forward"
    /\ \/ /\ live' = [live EXCEPT !.preds = train_iter.cursor]
          /\ log' = Append(log, << train_iter.cursor, "forward", << >> >>)
          /\ t_pc' = "label"
          /\ UNCHANGED << loop_params, eval_vars, epoch, train_iter, acc_sum,
                          mae_sum, n_, m_, train_l_sum, params, printed, line,
                          exc >>
       \/ LibraryRaises
    /\ UNCHANGED other_vars

\* bbox_labels, bbox_masks, cls_labels = contrib.nd.MultiBoxTarget(
\*     anchors, Y, cls_preds.transpose((0, 2, 1)))
SsdLabel ==
    /\ prog = "ssd"
    /\ t_pc = "label"
    /\ \/ /\ live' = [live EXCEPT !.labels = live.preds]
          /\ log' = Append(log, << train_iter.cursor, "label", << >> >>)
          /\ t_pc' = "loss"
          /\ UNCHANGED << loop_params, eval_vars, epoch, train_iter, acc_sum,
                          mae_sum, n_, m_, train_l_sum, params, printed, line,
                          exc >>
       \/ LibraryRaises
    /\ UNCHANGED other_vars

\* l = calc_loss(cls_preds, cls_labels, bbox_preds, bbox_labels, bbox_masks)
SsdLoss ==
    /\ prog = "ssd"
    /\ t_pc = "loss"
    /\ \/ /\ live' = [live EXCEPT !.l = << live.preds, live.labels >>]
          /\ log' = Append(log, << train_iter.cursor, "loss", << >> >>)
          /\ t_pc' = "backward"
          /\ UNCHANGED << loop_params, eval_vars, epoch, train_iter, acc_sum,
                          mae_sum, n_, m_, train_l_sum, params, printed, line,
                          exc >>
       \/ LibraryRaises
    /\ UNCHANGED other_vars

\* l.backward(), with the parameter update left out of the loop body
SsdBackward_NoStep ==
    /\ prog = "ssd"
    /\ t_pc = "backward"
    /\ live' = [live EXCEPT !.grad = live.l]
    /\ log' = Append(log, << train_iter.cursor, "backward", << >> >>)
    /\ t_pc' = "accumulate"
    /\ UNCHANGED << loop_params, eval_vars, epoch, train_iter, acc_sum, mae_sum,
                    n_, m_, train_l_sum, params, printed, line, exc, other_vars >>

\* l.backward()
SsdBackward ==
    /\ prog = "ssd"
    /\ t_pc = "backward"
    /\ \/ /\ live' = [live EXCEPT !.grad = live.l]
          /\ log' = Append(log, << train_iter.cursor, "backward", << >> >>)
          /\ t_pc' = "step"
          /\ UNCHANGED << loop_params, eval_vars, epoch, train_iter, acc_sum,
                          mae_sum, n_, m_, train_l_sum, params, printed, line,
                          exc >>
       \/ LibraryRaises
    /\ UNCHANGED other_vars

\* trainer.step(batch_size)
SsdStep ==
    /\ prog = "ssd"
    /\ t_pc = "step"
    /\ \/ /\ params' = params + 1
          /\ log' = Append(log, << train_iter.cursor, "step", << >> >>)
          /\ t_pc' = "accumulate"
          /\ UNCHANGED << loop_params, eval_vars, epoch, train_iter, acc_sum,
                          mae_sum, n_, m_, train_l_sum, live, printed, line,
                          exc >>
       \/ LibraryRaises
    /\ UNCHANGED other_vars

\* acc_sum += cls_eval(cls_preds, cls_labels); n += cls_labels.size
\* mae_sum += bbox_eval(bbox_preds, bbox_labels, bbox_masks)
\* m += bbox_labels.size
SsdAccumulate ==
    /\ prog = "ssd"
    /\ t_pc = "accumulate"
    /\ \/ \E ev \in SsdEvals :
             /\ acc_sum' = acc_sum + ev[1]
             /\ n_' = n_ + ClsLabelsSize
             /\ mae_sum' = mae_sum + ev[2]
             /\ m_' = m_ + BboxLabelsSize
             /\ log' = Append(log, << train_iter.cursor, "accumulate", ev >>)
             /\ t_pc' = "for_batch"
             /\ UNCHANGED << loop_params, eval_vars, epoch, train_iter,
                             train_l_sum, live, params, printed, line, exc >>
       \/ Raise("MXNetError", "cls_eval")
       \/ \E ev \in SsdEvals :
             /\ acc_sum' = acc_sum + ev[1]
             /\ n_' = n_ + ClsLabelsSize
             /\ t_pc' = "raised"
             /\ exc' = [type |-> "MXNetError", at |-> "bbox_eval"]
             /\ UNCHANGED << loop_params, eval_vars, epoch, train_iter, mae_sum,
                             m_, train_l_sum, live, log, params, printed, line >>
    /\ UNCHANGED other_vars

\* if (epoch + 1) % 5 == 0: print('epoch %2d, class err %.2e, bbox mae %.2e,
\* time %.1f sec' % (epoch + 1, 1 - acc_sum / n, mae_sum / m, ...))
SsdPrintDue_EveryEpoch(e) == TRUE

SsdPrintDue(e) == (e + 1) % PrintEvery = 0

SsdIfPrint ==
    /\ prog = "ssd"
    /\ t_pc = "if_print"
    /\ IF SsdPrintDue(epoch)
       THEN IF n_ = 0 \/ m_ = 0
            THEN Raise("ZeroDivisionError", "print")
            ELSE /\ printed' = Append(printed, epoch + 1)
                 /\ line' = [epoch |-> epoch + 1,
                             class_err |-> Quotient(n_ - acc_sum, n_),
                             bbox_mae |-> Quotient(mae_sum, m_)]
                 /\ t_pc' = "for_epoch"
                 /\ UNCHANGED << loop_params, eval_vars, epoch, train_iter,
                                 acc_sum, mae_sum, n_, m_, train_l_sum, live, log,
                                 params, exc >>
       ELSE /\ t_pc' = "for_epoch"
            /\ UNCHANGED << loop_params, eval_vars, epoch, train_iter, acc_sum,
                            mae_sum, n_, m_, train_l_sum, live, log, params,
                            printed, line, exc >>
    /\ UNCHANGED other_vars

SsdLoop ==
    \/ SsdForEpoch
    \/ SsdReset
    \/ SsdForBatch
    \/ SsdForward
    \/ SsdLabel
    \/ SsdLoss
    \/ SsdBackward
    \/ SsdStep
    \/ SsdAccumulate
    \/ SsdIfPrint

(***************************************************************************)
(* evaluate_accuracy and train_ch3 of the softmax regression notebook.     *)
(***************************************************************************)
\* train_ch3 is called with at most this many epochs
MaxEpochs == 2

\* batch_size = 256: y.size of a batch
ch3_batch_size == 256

\* what (y_hat.argmax(axis=1) == y).sum().asscalar() may be for a batch
AccEvals == {0, ch3_batch_size}

\* what l.asscalar() and the number of right predictions may be for a
\* training batch, as << loss, right >>
Ch3Evals == { << 2, 0 >>, << 1, ch3_batch_size >> }

\* the steps of one iteration of train_ch3, in the order of the statements
Ch3Steps == << "forward", "loss", "backward", "update", "accumulate" >>

\* for X, y in data_iter: iterating a DataLoader starts from its first batch
iter(it) == [it EXCEPT !.cursor = 0]

\* evaluate_accuracy(data_iter, net): acc_sum, n = 0.0, 0
EvalCall(it) ==
    /\ e_pc' = "for_batch"
    /\ e_acc_sum' = 0
    /\ e_n' = 0
    /\ test_iter' = iter(it)

\* for X, y in data_iter
EvalForBatch ==
    /\ t_pc = "evaluate"
    /\ e_pc = "for_batch"
    /\ \/ /\ IF test_iter.cursor < test_iter.batches
             THEN /\ test_iter' = [test_iter EXCEPT !.cursor = @ + 1]
                  /\ e_pc' = "accumulate"
             ELSE /\ e_pc' = "return"
                  /\ UNCHANGED test_iter
          /\ UNCHANGED << prog, t_pc, epoch, num_epochs, train_iter, trainer,
                          acc_sum, mae_sum, n_, m_, train_l_sum, live, log, params,
                          e_acc_sum, e_n, test_acc, evals, printed, line, exc >>
       \/ Raise("MXNetError", "evaluate_accuracy")
    /\ UNCHANGED other_vars

\* y = y.astype('float32')
\* acc_sum += (net(X).argmax(axis=1) == y).sum().asscalar(); n += y.size
EvalAccumulate ==
    /\ t_pc = "evaluate"
    /\ e_pc = "accumulate"
    /\ \/ \E a \in AccEvals :
             /\ e_acc_sum' = e_acc_sum + a
             /\ e_n' = e_n + ch3_batch_size
             /\ e_pc' = "for_batch"
             /\ UNCHANGED << prog, t_pc, epoch, num_epochs, train_iter, test_iter,
                             trainer, acc_sum, mae_sum, n_, m_, train_l_sum, live,
                             log, params, test_acc, evals, printed, line, exc >>
       \/ Raise("MXNetError", "evaluate_accuracy")
    /\ UNCHANGED other_vars

\* return acc_sum / n, with 0 returned for n = 0
EvalReturn_Guarded ==
    /\ t_pc = "evaluate"
    /\ e_pc = "return"
    /\ test_acc' = (IF e_n = 0 THEN 0 ELSE Quotient(e_acc_sum, e_n))
    /\ evals' = evals + 1
    /\ e_pc' = "idle"
    /\ t_pc' = IF prog = "train_ch3" THEN "print" ELSE "done"
    /\ UNCHANGED << prog, epoch, num_epochs, train_iter, test_iter, trainer,
                    acc_sum, mae_sum, n_, m_, train_l_sum, live, log, params,
                    e_acc_sum, e_n, printed, line, exc, other_vars >>

\* return acc_sum / n, to train_ch3 or to the cell that called
EvalReturn ==
    /\ t_pc = "evaluate"
    /\ e_pc = "return"
    /\ IF e_n = 0
       THEN Raise("ZeroDivisionError", "evaluate_accuracy")
       ELSE /\ test_acc' = Quotient(e_acc_sum, e_n)
            /\ evals' = evals + 1
            /\ e_pc' = "idle"
            /\ t_pc' = IF prog = "train_ch3" THEN "print" ELSE "done"
            /\ UNCHANGED << prog, epoch, num_epochs, train_iter, test_iter,
                            trainer, acc_sum, mae_sum, n_, m_, train_l_sum, live,
                            log, params, e_acc_sum, e_n, printed, line, exc >>
    /\ UNCHANGED other_vars

\* for epoch in range(num_epochs), with the sums set to 0 once, before the
\* for statement
Ch3ForEpoch_SumsKept ==
    /\ prog = "train_ch3"
    /\ t_pc = "for_epoch"
    /\ IF epoch + 1 < num_epochs
       THEN /\ epoch' = epoch + 1
            /\ log' = << >>
            /\ evals' = 0
            /\ train_iter' = [train_iter EXCEPT !.cursor = 0]
            /\ t_pc' = "for_batch"
       ELSE /\ t_pc' = "done"
            /\ UNCHANGED << epoch, log, evals, train_iter >>
    /\ UNCHANGED << prog, num_epochs, test_iter, trainer, train_l_sum, acc_sum,
                    n_, mae_sum, m_, live, params, e_pc, e_acc_sum, e_n,
                    test_acc, printed, line, exc, ssd_vars, demo_vars, sm_vars,
                    disp_vars, loss_vars >>

\* for epoch in range(num_epochs): train_l_sum, train_acc_sum, n = 0.0, 0.0, 0
\* and the for statement over train_iter starts
Ch3ForEpoch ==
    /\ prog = "train_ch3"
    /\ t_pc = "for_epoch"
    /\ IF epoch + 1 < num_epochs
       THEN /\ epoch' = epoch + 1
            /\ train_l_sum' = 0
            /\ acc_sum' = 0
            /\ n_' = 0
            /\ log' = << >>
            /\ evals' = 0
            /\ train_iter' = iter(train_iter)
            /\ t_pc' = "for_batch"
       ELSE /\ t_pc' = "done"
            /\ UNCHANGED << epoch, train_l_sum, acc_sum, n_, log, evals,
                            train_iter >>
    /\ UNCHANGED << loop_params, mae_sum, m_, live, params, e_pc, e_acc_sum, e_n,
                    test_acc, printed, line, exc, other_vars >>

\* for X, y in train_iter: the next batch, or after the last one
\* test_acc = evaluate_accuracy(test_iter, net)
Ch3ForBatch ==
    /\ prog = "train_ch3"
    /\ t_pc = "for_batch"
    /\ \/ /\ IF train_iter.cursor < train_iter.batches
             THEN /\ train_iter' = [train_iter EXCEPT !.cursor = @ + 1]
                  /\ live' = [live EXCEPT !.labels = train_iter.cursor + 1]
                  /\ t_pc' = "forward"
                  /\ UNCHANGED << test_iter, e_pc, e_acc_sum, e_n >>
             ELSE /\ t_pc' = "evaluate"
                  /\ EvalCall(test_iter)
                  /\ UNCHANGED << train_iter, live >>
          /\ UNCHANGED << prog, epoch, num_epochs, trainer, acc_sum, mae_sum, n_,
                          m_, train_l_sum, log, params, test_acc, evals, printed,
                          line, exc >>
       \/ LibraryRaises
    /\ UNCHANGED other_vars

\* y_hat = net(X)
Ch3Forward ==
    /\ prog = "train_ch3"
    /\ t_pc = "forward"
    /\ \/ /\ live' = [live EXCEPT !.preds = train_iter.cursor]
          /\ log' = Append(log, << train_iter.cursor, "forward", << >> >>)
          /\ t_pc' = "loss"
          /\ UNCHANGED << loop_params, eval_vars, epoch, train_iter, acc_sum,
                          mae_sum, n_, m_, train_l_sum, params, printed, line,
                          exc >>
       \/ LibraryRaises
    /\ UNCHANGED other_vars

\* l = loss(y_hat, y).sum()
Ch3Loss ==
    /\ prog = "train_ch3"
    /\ t_pc = "loss"
    /\ \/ /\ live' = [live EXCEPT !.l = << live.preds, live.labels >>]
          /\ log' = Append(log, << train_iter.cursor, "loss", << >> >>)
          /\ t_pc' = "backward"
          /\ UNCHANGED << loop_params, eval_vars, epoch, train_iter, acc_sum,
                          mae_sum, n_, m_, train_l_sum, params, printed, line,
                          exc >>
       \/ LibraryRaises
    /\ UNCHANGED other_vars

\* l.backward()
Ch3Backward ==
    /\ prog = "train_ch3"
    /\ t_pc = "backward"
    /\ \/ /\ live' = [live EXCEPT !.grad = live.l]
          /\ log' = Append(log, << train_iter.cursor, "backward", << >> >>)
          /\ t_pc' = "update"
          /\ UNCHANGED << loop_params, eval_vars, epoch, train_iter, acc_sum,
                          mae_sum, n_, m_, train_l_sum, params, printed, line,
                          exc >>
       \/ LibraryRaises
    /\ UNCHANGED other_vars

\* if trainer is None: d2l.sgd(params, lr, batch_size)
\* else: trainer.step(batch_size)
Ch3Update ==
    /\ prog = "train_ch3"
    /\ t_pc = "update"
    /\ \/ /\ params' = params + 1
          /\ log' = Append(log, << train_iter.cursor, "update",
                               << IF trainer = "None" THEN "d2l.sgd"
                                                      ELSE "trainer.step" >> >>)
          /\ t_pc' = "accumulate"
          /\ UNCHANGED << loop_params, eval_vars, epoch, train_iter, acc_sum,
                          mae_sum, n_, m_, train_l_sum, live, printed, line,
                          exc >>
       \/ LibraryRaises
    /\ UNCHANGED other_vars

\* y = y.astype('float32'); train_l_sum += l.asscalar()
\* train_acc_sum += (y_hat.argmax(axis=1) == y).sum().asscalar(); n += y.size
Ch3Accumulate ==
    /\ prog = "train_ch3"
    /\ t_pc = "accumulate"
    /\ \/ \E ev \in Ch3Evals :
             /\ train_l_sum' = train_l_sum + ev[1]
             /\ acc_sum' = acc_sum + ev[2]
             /\ n_' = n_ + ch3_batch_size
             /\ log' = Append(log, << train_iter.cursor, "accumulate", ev >>)
             /\ t_pc' = "for_batch"
             /\ UNCHANGED << loop_params, eval_vars, epoch, train_iter, mae_sum,
                             m_, live, params, printed, line, exc >>
       \/ LibraryRaises
    /\ UNCHANGED other_vars

\* print('epoch %d, loss %.4f, train acc %.3f, test acc %.3f'
\*       % (epoch + 1, train_l_sum / n, train_acc_sum / n, test_acc))
Ch3Print ==
    /\ prog = "train_ch3"
    /\ t_pc = "print"
    /\ IF n_ = 0
       THEN Raise("ZeroDivisionError", "print")
       ELSE /\ printed' = Append(printed, epoch + 1)
            /\ line' = [epoch |-> epoch + 1,
                        loss |-> Quotient(train_l_sum, n_),
                        train_acc |-> Quotient(acc_sum, n_),
                        test_acc |-> test_acc]
            /\ t_pc' = "for_epoch"
            /\ UNCHANGED << loop_params, eval_vars, epoch, train_iter, acc_sum,
                            mae_sum, n_, m_, train_l_sum, live, log, params, exc >>
    /\ UNCHANGED other_vars

evaluate_accuracy == EvalForBatch \/ EvalAccumulate \/ EvalReturn

train_ch3 ==
    \/ Ch3ForEpoch
    \/ Ch3ForBatch
    \/ Ch3Forward
    \/ Ch3Loss
    \/ Ch3Backward
    \/ Ch3Update
    \/ Ch3Accumulate
    \/ Ch3Print

(***************************************************************************)
(* The training cells run on iterators of 0 to MaxBatches batches.         *)
(***************************************************************************)
Batches == 0..MaxBatches

NewIter(b) == [batches |-> b, cursor |-> 0, resets |-> 0]

\* no statement of the cell has run
TrainStart ==
    /\ epoch = -1
    /\ acc_sum = 0
    /\ mae_sum = 0
    /\ n_ = 0
    /\ m_ = 0
    /\ train_l_sum = 0
    /\ live = NoLive
    /\ log = << >>
    /\ params = 0
    /\ e_acc_sum = 0
    /\ e_n = 0
    /\ test_acc = None
    /\ evals = 0
    /\ printed = << >>
    /\ line = None
    /\ exc = NoExc

\* cell 19 of the detection notebook starts
InitSsdLoop ==
    /\ prog = "ssd"
    /\ t_pc = "for_epoch"
    /\ num_epochs = SsdEpochs
    /\ train_iter \in { NewIter(b) : b \in Batches }
    /\ test_iter = NoIter
    /\ trainer = "Trainer"
    /\ e_pc = "idle"

\* train_ch3 is called
InitTrainCh3 ==
    /\ prog = "train_ch3"
    /\ t_pc = "for_epoch"
    /\ num_epochs \in 0..MaxEpochs
    /\ train_iter \in { NewIter(b) : b \in Batches }
    /\ test_iter \in { NewIter(b) : b \in Batches }
    /\ trainer \in {"None", "Trainer"}
    /\ e_pc = "idle"

\* evaluate_accuracy(test_iter, net) is called by a cell
InitEvaluate ==
    /\ prog = "evaluate_accuracy"
    /\ t_pc = "evaluate"
    /\ num_epochs = 0
    /\ train_iter = NoIter
    /\ test_iter \in { NewIter(b) : b \in Batches }
    /\ trainer = "None"
    /\ e_pc = "for_batch"

InitTrain ==
    /\ SoftmaxIdle
    /\ DemoIdle
    /\ DisplayIdle
    /\ LossIdle
    /\ pc = "idle"
    /\ sizes = None
    /\ ratios = None
    /\ num_anchors = 0
    /\ net = None
    /\ input = None
    /\ X = None
    /\ i = 0
    /\ anchors = NoneList
    /\ cls_preds = NoneList
    /\ bbox_preds = NoneList
    /\ out = None
    /\ TrainStart
    /\ (InitSsdLoop \/ InitTrainCh3 \/ InitEvaluate)

NextTrain == SsdLoop \/ train_ch3 \/ evaluate_accuracy

SpecTrain == InitTrain /\ [][NextTrain]_vars

SpecTrainFair == InitTrain /\ [][NextTrain]_vars /\ WF_vars(NextTrain)

(***************************************************************************)
(* The order, the number and the output of the training steps.             *)
(***************************************************************************)
\* the statement the loop stands at, or stood at when an exception left it
At == IF t_pc = "raised" THEN exc.at ELSE t_pc

\* the log holds the steps of batch 1, then those of batch 2, ..., each
\* batch's steps in the order of steps and each once
LogInOrder(steps) ==
    \A j \in 1..Len(log) :
        /\ log[j][1] = ((j - 1) \div Len(steps)) + 1
        /\ log[j][2] = steps[((j - 1) % Len(steps)) + 1]

\* how many entries of the log are the step named
CountSteps(name) == Cardinality({ j \in 1..Len(log) : log[j][2] = name })

\* the sum of the k-th value the accumulation steps of the log added
RECURSIVE SumLogged(_, _)
SumLogged(lg, k) ==
    IF lg = << >> THEN 0
    ELSE (IF Head(lg)[2] = "accumulate" THEN Head(lg)[3][k] ELSE 0)
             + SumLogged(Tail(lg), k)

\* C11: in every iteration of the detection training loop the steps are
\* taken in the order forward pass (anchors, cls_preds, bbox_preds),
\* labelling by MultiBoxTarget of the anchors and predictions of that pass,
\* calc_loss on these predictions and labels, backward of that loss,
\* trainer.step, accumulation of acc_sum, n, mae_sum and m, each once; the
\* next batch is taken only when the accumulation for this one is done.
C11_SsdIterationOrder ==
    prog = "ssd" =>
        LET c == train_iter.cursor
            len == Len(SsdSteps)
        IN  /\ LogInOrder(SsdSteps)
            /\ t_pc \in {"for_batch", "if_print", "for_epoch", "done"}
                  => Len(log) = len * c
            /\ \A k \in 1..len :
                  t_pc = SsdSteps[k] => Len(log) = len * (c - 1) + (k - 1)
            /\ t_pc \in {"loss", "accumulate"} => live.preds = c /\ live.labels = c
            /\ t_pc = "backward" => live.l = << c, c >>
            /\ t_pc \in {"step", "accumulate"} => live.grad = << c, c >>
            /\ m_ = BboxLabelsSize * CountSteps("accumulate")
            /\ mae_sum = SumLogged(log, 2)
            /\ At # "bbox_eval" =>
                  /\ n_ = ClsLabelsSize * CountSteps("accumulate")
                  /\ acc_sum = SumLogged(log, 1)

C11_Witness ==
    /\ prog = "ssd"
    /\ epoch = 1
    /\ t_pc = "for_batch"
    /\ train_iter.cursor = 2
    /\ Len(log) = 12
    /\ log[11] = << 2, "step", << >> >>
    /\ params = 4

\* the epochs whose last statement, the if statement, is behind
EpochsCompleted == IF t_pc \in {"for_epoch", "done"} THEN epoch + 1 ELSE epoch

\* the loop ended, by running out of epochs or by an exception
LoopEnded == t_pc \in {"done", "raised"}

\* what holds of the detection training loop at every statement
SsdEpochsInvariant ==
    prog = "ssd" =>
        LET B == train_iter.batches
        IN  /\ num_epochs = 20
            /\ epoch \in -1..19
            /\ train_iter.resets = (IF At = "reset" THEN epoch ELSE epoch + 1)
            /\ LogInOrder(SsdSteps)
            /\ params = EpochsCompleted * B
                          + (IF EpochsCompleted = epoch THEN CountSteps("step") ELSE 0)
            /\ At \in {"if_print", "print", "for_epoch", "done"} /\ epoch >= 0
                  => /\ train_iter.cursor = B
                     /\ Len(log) = Len(SsdSteps) * B
                     /\ CountSteps("step") = B
            /\ t_pc = "done"
                  => /\ EpochsCompleted = 20
                     /\ train_iter.resets = 20
                     /\ params = 20 * B
            /\ t_pc = "raised" => exc.type = "MXNetError" \/ B = 0

\* C12: the detection training loop runs 20 epochs and then ends: every
\* epoch calls train_iter.reset() first and then takes every batch of the
\* iterator once, from the first, so that trainer.step has been called
\* 20 * B times when the loop ends; the loop always ends, and it ends before
\* the 20th epoch is over only by an exception (a library call that raises,
\* or the division by n = 0 of an iterator without batches).
C12_SsdTwentyEpochs == [] SsdEpochsInvariant /\ <> (prog = "ssd" => LoopEnded)

C12_Witness ==
    /\ prog = "ssd"
    /\ t_pc = "done"
    /\ train_iter.batches = 2
    /\ train_iter.resets = 20
    /\ params = 40
    /\ printed = << 5, 10, 15, 20 >>

\* C13: the detection training loop prints a line at the end of the epochs
\* 5, 10, 15 and 20 (epoch + 1 a multiple of 5) and of no other epoch, after
\* every batch of the epoch was processed; the line gives epoch + 1, the
\* class err 1 - acc_sum / n and the bbox mae mae_sum / m of the sums
\* accumulated over the batches of that epoch alone.
C13_SsdPrints ==
    prog = "ssd" =>
        LET B == train_iter.batches
        IN  /\ printed = [k \in 1..(EpochsCompleted \div 5) |-> 5 * k]
            /\ printed # << >> => line.epoch = printed[Len(printed)]
            /\ (t_pc = "for_epoch" /\ epoch >= 0 /\ (epoch + 1) % 5 = 0)
                  => /\ Len(log) = Len(SsdSteps) * B
                     /\ line = [epoch |-> epoch + 1,
                                class_err |->
                                    Quotient(B * ClsLabelsSize - SumLogged(log, 1),
                                             B * ClsLabelsSize),
                                bbox_mae |->
                                    Quotient(SumLogged(log, 2), B * BboxLabelsSize)]

C13_Witness ==
    /\ prog = "ssd"
    /\ t_pc = "for_epoch"
    /\ epoch = 9
    /\ train_iter.batches = 2
    /\ printed = << 5, 10 >>
    /\ line.class_err = Quotient(ClsLabelsSize, 2 * ClsLabelsSize)
    /\ line.bbox_mae = Quotient(3, 2 * BboxLabelsSize)

(***************************************************************************)
(* calc_loss and bbox_eval of the detection notebook (cells 16 and 18).    *)
(* bbox_preds, bbox_labels and bbox_masks are arrays of shape (batch,      *)
(* offsets) of finite numbers; MultiBoxTarget gives masks of 0 and 1.      *)
(***************************************************************************)
\* an example has at most this many offsets
MaxOffsets == 2

LossBatchSizes == {1, 2}

\* an entry of the three arrays, as << prediction, label, mask >>
LossEntries ==
    { << -2, 0, 0 >>, << 3, 2, 0 >>, << -2, 2, 1 >>, << 3, 3, 1 >> }

\* the values a prediction or a label takes
LossValues == { e[1] : e \in LossEntries } \cup { e[2] : e \in LossEntries }

LossArrays ==
    UNION { [1..b -> [1..k -> LossEntries]] : b \in LossBatchSizes, k \in 1..MaxOffsets }

Abs(x) == IF x < 0 THEN -x ELSE x

\* A * B and A - B of two arrays of one shape
Mul(A, B) == [b \in DOMAIN A |-> [j \in DOMAIN A[b] |-> A[b][j] * B[b][j]]]

Sub(A, B) == [b \in DOMAIN A |-> [j \in DOMAIN A[b] |-> A[b][j] - B[b][j]]]

\* A.abs()
AbsArray(A) == [b \in DOMAIN A |-> [j \in DOMAIN A[b] |-> Abs(A[b][j])]]

\* A.sum().asscalar()
SumAll(A) == SumSeq([b \in DOMAIN A |-> SumSeq(A[b])])

\* bbox_loss = gloss.L1Loss(): the mean over the offsets of each example of
\* the absolute difference of label and prediction
bbox_loss(pred, label) ==
    [b \in DOMAIN pred |->
        Quotient(SumSeq(AbsArray(Sub(label, pred))[b]), Len(pred[b]))]

\* the term bbox of calc_loss, with the labels left unmasked
calc_loss_bbox_LabelsUnmasked(bbox_preds_, bbox_labels_, bbox_masks_) ==
    bbox_loss(Mul(bbox_preds_, bbox_masks_), bbox_labels_)

\* the term bbox of calc_loss:
\* bbox_loss(bbox_preds * bbox_masks, bbox_labels * bbox_masks)
calc_loss_bbox(bbox_preds_, bbox_labels_, bbox_masks_) ==
    bbox_loss(Mul(bbox_preds_, bbox_masks_), Mul(bbox_labels_, bbox_masks_))

\* ((bbox_labels - bbox_preds) * bbox_masks).abs().sum().asscalar()
bbox_eval(bbox_preds_, bbox_labels_, bbox_masks_) ==
    SumAll(AbsArray(Mul(Sub(bbox_labels_, bbox_preds_), bbox_masks_)))

\* the forward pass of the detection network has not been set up
SsdIdle ==
    /\ pc = "idle"
    /\ sizes = None
    /\ ratios = None
    /\ num_anchors = 0
    /\ net = None
    /\ input = None
    /\ X = None
    /\ i = 0
    /\ anchors = NoneList
    /\ cls_preds = NoneList
    /\ bbox_preds = NoneList
    /\ out = None

\* the three arrays of a batch
Field(A, k) == [b \in DOMAIN A |-> [j \in DOMAIN A[b] |-> A[b][j][k]]]

InitLoss ==
    /\ SoftmaxIdle
    /\ DemoIdle
    /\ DisplayIdle
    /\ TrainIdle
    /\ SsdIdle
    /\ l_pc = "start"
    /\ \E A \in LossArrays :
          bbox = [preds |-> Field(A, 1), labels |-> Field(A, 2), masks |-> Field(A, 3)]
    /\ l_bbox = None
    /\ mae = None

\* l = calc_loss(cls_preds, cls_labels, bbox_preds, bbox_labels, bbox_masks)
CalcLoss ==
    /\ l_pc = "start"
    /\ l_bbox' = calc_loss_bbox(bbox.preds, bbox.labels, bbox.masks)
    /\ l_pc' = "loss"
    /\ UNCHANGED << bbox, mae, ssd_vars, demo_vars, sm_vars, train_vars, disp_vars >>

\* mae_sum += bbox_eval(bbox_preds, bbox_labels, bbox_masks)
BboxEval ==
    /\ l_pc = "loss"
    /\ mae' = bbox_eval(bbox.preds, bbox.labels, bbox.masks)
    /\ l_pc' = "done"
    /\ UNCHANGED << bbox, l_bbox, ssd_vars, demo_vars, sm_vars, train_vars, disp_vars >>

NextLoss == CalcLoss \/ BboxEval

SpecLoss == InitLoss /\ [][NextLoss]_vars

\* what entry (b, j) adds according to the claim: nothing under a mask of 0,
\* the absolute difference of label and prediction under a mask of 1
Contribution(b, j) ==
    IF bbox.masks[b][j] = 0 THEN 0
    ELSE IF bbox.labels[b][j] >= bbox.preds[b][j]
         THEN bbox.labels[b][j] - bbox.preds[b][j]
         ELSE bbox.preds[b][j] - bbox.labels[b][j]

\* array A with v at (b, j)
With(A, b, j, v) == [A EXCEPT ![b][j] = v]

NoRetryStep ==
    /\ t_pc = "raised" => UNCHANGED train_vars
    /\ exc' # NoExc => t_pc' = "raised"
    /\ (t_pc # "raised" /\ t_pc' = "raised")
          => /\ exc'.type \in {"MXNetError", "ZeroDivisionError"}
             /\ exc'.at \in {t_pc, "print", "cls_eval", "bbox_eval", "evaluate_accuracy"}
             /\ params' = params
             /\ epoch' = epoch
             /\ train_iter' = train_iter
             /\ test_iter' = test_iter
             /\ log' = log
             /\ printed' = printed

\* C15: in both training loops a step that raises (forward pass, labelling,
\* loss, backward, parameter update, accumulation, or any other statement)
\* ends the loop with that exception: the step is not retried, no further
\* batch or epoch is taken, and the parameter updates applied so far stay
\* applied.
C15_NoRetry == [][NoRetryStep]_vars

C15_Witness ==
    /\ prog = "ssd"
    /\ t_pc = "raised"
    /\ exc = [type |-> "MXNetError", at |-> "step"]
    /\ epoch = 2
    /\ train_iter = [batches |-> 2, cursor |-> 2, resets |-> 3]
    /\ params = 5

(***************************************************************************)
(* train_ch3: epochs, steps, evaluation and output.                        *)
(***************************************************************************)
\* what holds of train_ch3 at every statement
Ch3Invariant ==
    prog = "train_ch3" =>
        LET B == train_iter.batches
            len == Len(Ch3Steps)
            c == train_iter.cursor
        IN  /\ epoch \in -1..(num_epochs - 1)
            /\ LogInOrder(Ch3Steps)
            /\ \A k \in 1..len :
                  t_pc = Ch3Steps[k] => Len(log) = len * (c - 1) + (k - 1)
            /\ t_pc = "for_batch" => Len(log) = len * c
            /\ t_pc \in {"loss", "accumulate"} => live.preds = c /\ live.labels = c
            /\ t_pc = "backward" => live.l = << c, c >>
            /\ t_pc \in {"update", "accumulate"} => live.grad = << c, c >>
            /\ params = EpochsCompleted * B
                          + (IF EpochsCompleted = epoch THEN CountSteps("update") ELSE 0)
            /\ n_ = ch3_batch_size * CountSteps("accumulate")
            /\ train_l_sum = SumLogged(log, 1)
            /\ acc_sum = SumLogged(log, 2)
            /\ evals \in {0, 1}
            /\ evals = 1 <=> (At \in {"print", "for_epoch", "done"} /\ epoch >= 0)
            /\ (At \in {"evaluate", "evaluate_accuracy", "print", "for_epoch", "done"}
                    /\ epoch >= 0)
                  => c = B /\ Len(log) = len * B
            /\ evals = 1 =>
                  test_acc = Quotient(e_acc_sum, test_iter.batches * ch3_batch_size)
            /\ printed = [k \in 1..EpochsCompleted |-> k]
            /\ (t_pc = "for_epoch" /\ epoch >= 0)
                  => line = [epoch |-> epoch + 1,
                             loss |-> Quotient(SumLogged(log, 1), B * ch3_batch_size),
                             train_acc |->
                                 Quotient(SumLogged(log, 2), B * ch3_batch_size),
                             test_acc |-> test_acc]
            /\ t_pc = "done"
                  => /\ EpochsCompleted = num_epochs
                     /\ params = num_epochs * B
                     /\ Len(printed) = num_epochs
            /\ t_pc = "raised"
                  => exc.type = "MXNetError" \/ B = 0 \/ test_iter.batches = 0

\* C17: train_ch3 runs num_epochs epochs and then returns; in every epoch it
\* takes the training batches in the order of the iterator and does for
\* each one forward pass, one summed loss, one backward pass and one
\* parameter update (d2l.sgd or trainer.step) in this order, then adds to
\* its sums; after the last batch of the epoch, and only then, it calls
\* evaluate_accuracy on test_iter once and prints one line with epoch + 1,
\* train_l_sum / n, train_acc_sum / n and the test accuracy.  The call always
\* ends, and it ends before the last epoch is over only by an exception.
C17_TrainCh3 == [] Ch3Invariant /\ <> (prog = "train_ch3" => LoopEnded)

C17_Witness ==
    /\ prog = "train_ch3"
    /\ t_pc = "done"
    /\ num_epochs = 2
    /\ train_iter.batches = 2
    /\ test_iter.batches = 1
    /\ params = 4
    /\ printed = << 1, 2 >>
    /\ line = [epoch |-> 2,
               loss |-> Quotient(3, 2 * ch3_batch_size),
               train_acc |-> Quotient(ch3_batch_size, 2 * ch3_batch_size),
               test_acc |-> Quotient(ch3_batch_size, ch3_batch_size)]

(***************************************************************************)
(* Iterators without batches.                                              *)
(***************************************************************************)
ZeroDivision(at) == [type |-> "ZeroDivisionError", at |-> at]

\* C19: when the iterator gives no batch, n (and m) stay 0 and the division
\* by n raises ZeroDivisionError, which nothing catches: evaluate_accuracy
\* raises at its return statement; train_ch3 raises at the print of its
\* first epoch (in the call of evaluate_accuracy before it when test_iter
\* has no batch either); the detection training loop raises at the print
\* of epoch 5, after four epochs without output.  Only a library call that
\* raises first ends these runs otherwise, and the division raises in no
\* other case.
C19_EmptyIterator ==
    /\ exc.type = "ZeroDivisionError" =>
          /\ t_pc = "raised"
          /\ exc.at = "evaluate_accuracy" => test_iter.batches = 0 /\ e_n = 0
          /\ exc.at = "print" => train_iter.batches = 0 /\ n_ = 0
    /\ (prog = "evaluate_accuracy" /\ test_iter.batches = 0) =>
          /\ e_n = 0
          /\ LoopEnded =>
                \/ exc = ZeroDivision("evaluate_accuracy")
                \/ exc.type = "MXNetError"
    /\ (prog = "train_ch3" /\ train_iter.batches = 0) =>
          /\ n_ = 0
          /\ printed = << >>
          /\ (LoopEnded /\ num_epochs >= 1) =>
                \/ exc = ZeroDivision("print") /\ epoch = 0 /\ evals = 1
                \/ /\ exc = ZeroDivision("evaluate_accuracy")
                   /\ epoch = 0
                   /\ test_iter.batches = 0
                \/ exc.type = "MXNetError"
    /\ (prog = "ssd" /\ train_iter.batches = 0) =>
          /\ n_ = 0
          /\ m_ = 0
          /\ printed = << >>
          /\ LoopEnded =>
                \/ /\ exc = ZeroDivision("print")
                   /\ epoch = 4
                   /\ train_iter.resets = 5
                \/ exc.type = "MXNetError"

C19_Witness ==
    /\ prog = "ssd"
    /\ train_iter.batches = 0
    /\ t_pc = "raised"
    /\ exc = ZeroDivision("print")
    /\ epoch = 4
    /\ printed = << >>

(***************************************************************************)
(* display of the detection notebook (cell 22).  A row of output is        *)
(* << class, score, box >>; scores and thresholds are counted in           *)
(* hundredths, box corners in tenths of the image's width and height.      *)
(***************************************************************************)
\* output has at most this many rows
MaxOutputRows == 2

\* img.shape[0:2]
ImgShape == << 2, 3 >>

Scores == {10, 29, 30, 31}

Thresholds == {30, 31}

Boxes == { << 1, 2, 5, 6 >>, << 0, 0, 10, 10 >> }

\* the rows predict keeps have a class other than -1
OutputRows == { << 0, sc, bx >> : sc \in Scores, bx \in Boxes }

Outputs == UNION { [1..k -> OutputRows] : k \in 0..MaxOutputRows }

\* if score <= threshold: continue
Skipped_OrEqual(score, threshold_) == score <= threshold_

\* if score < threshold: continue
Skipped(score, threshold_) == score < threshold_

\* h, w = img.shape[0:2]; row[2:6] * nd.array((w, h, w, h))
ScaledBox(r) ==
    LET h == ImgShape[1]
        w == ImgShape[2]
    IN  << r[3][1] * w, r[3][2] * h, r[3][3] * w, r[3][4] * h >>

InitDisplay ==
    /\ SoftmaxIdle
    /\ DemoIdle
    /\ LossIdle
    /\ TrainIdle
    /\ SsdIdle
    /\ d_pc = "start"
    /\ output \in Outputs
    /\ threshold \in Thresholds
    /\ row = 0
    /\ drawn = << >>

\* fig = d2l.plt.imshow(img.asnumpy())
DisplayShow ==
    /\ d_pc = "start"
    /\ d_pc' = "for_row"
    /\ UNCHANGED << output, threshold, row, drawn, ssd_vars, demo_vars, sm_vars,
                    train_vars, loss_vars >>

\* for row in output: one pass of the loop body, or the end of the loop
DisplayRow ==
    /\ d_pc = "for_row"
    /\ IF row < Len(output)
       THEN /\ row' = row + 1
            /\ drawn' = IF Skipped(output[row + 1][2], threshold)
                        THEN drawn
                        ELSE Append(drawn, [row |-> row + 1,
                                            bbox |-> ScaledBox(output[row + 1]),
                                            label |-> output[row + 1][2]])
            /\ UNCHANGED d_pc
       ELSE /\ d_pc' = "done"
            /\ UNCHANGED << row, drawn >>
    /\ UNCHANGED << output, threshold, ssd_vars, demo_vars, sm_vars, train_vars,
                    loss_vars >>

NextDisplay == DisplayShow \/ DisplayRow

SpecDisplay == InitDisplay /\ [][NextDisplay]_vars

\* the rows among the first k of output whose score is at least threshold,
\* in the order of output
RowsAtLeast(k) ==
    SelectSeq([r \in 1..k |-> r], LAMBDA r : output[r][2] >= threshold)

\* C16: display draws one box for each row of output whose score (column 1)
\* is at least threshold, and for no other row, in the order of the rows: a
\* row with a score below threshold is skipped, a row with a score equal to
\* threshold is drawn.
C16_DisplayThreshold ==
    LET kept == RowsAtLeast(row)
    IN  /\ Len(drawn) = Len(kept)
        /\ \A k \in 1..Len(kept) :
              /\ drawn[k].row = kept[k]
              /\ drawn[k].bbox = ScaledBox(output[kept[k]])
              /\ drawn[k].label = output[kept[k]][2]
        /\ d_pc = "done" => row = Len(output)

C16_Witness ==
    /\ d_pc = "done"
    /\ threshold = 30
    /\ Len(output) = 2
    /\ output[1][2] = 29
    /\ output[2] = << 0, 30, << 1, 2, 5, 6 >> >>
    /\ drawn = << [row |-> 2, bbox |-> << 3, 4, 15, 12 >>, label |-> 30] >>

(***************************************************************************)
(* The three outputs of TinySSD.forward, anchor box by anchor box.         *)
(***************************************************************************)
\* the row of nd.concat(*anchors, dim=1) that holds anchor box a (0-based) of
\* the cell (y, x) of scale k (1-based), for the feature maps fmaps
anchor_out_row(fmaps, k, y, x, a) ==
    ConcatIdx(anchors, k,
              MultiBoxPrior_idx(fmaps[k], sizes[k], ratios[k], y, x, a))[2]

\* C18: for every num_classes and every input the forward pass returns for,
\* the outputs describe the same N = 4 * (sum over the five scales of
\* h_i * w_i) anchor boxes in the same order: anchors is (1, N, 4), the class
\* predictions are (batch, N, num_classes + 1), the bounding-box predictions
\* are (batch, 4 * N), and the anchor box a of the cell (y, x) of scale k is
\* row r of anchors, its num_classes + 1 scores are row r of the class
\* predictions and its 4 offsets are the entries 4r .. 4r + 3 of the
\* bounding-box predictions; num_anchors = 4 is the number of anchor boxes
\* generated per cell at every scale.
C18_OutputsAligned ==
    pc = "done" =>
        LET q == net.num_classes
            N == 4 * SumSeq([k \in 1..5 |-> cls_preds[k][3] * cls_preds[k][4]])
        IN  /\ num_anchors = 4
            /\ \A k \in 1..5 : Len(sizes[k]) + Len(ratios[k]) - 1 = num_anchors
            /\ out = << << 1, N, 4 >>, << input[1], N, q + 1 >>, << input[1], 4 * N >> >>
            /\ \A k \in 1..5 :
                  LET s == cls_preds[k]
                  IN  /\ anchors[k] = << 1, s[3] * s[4] * num_anchors, 4 >>
                      /\ bbox_preds[k] = << s[1], 4 * num_anchors, s[3], s[4] >>
                      /\ \A y \in 0..(s[3] - 1), x \in 0..(s[4] - 1),
                            a \in 0..(num_anchors - 1) :
                            LET r == anchor_out_row(cls_preds, k, y, x, a)
                            IN  /\ r \in 0..(N - 1)
                                /\ \A b \in 0..(s[1] - 1) :
                                      /\ \A j \in 0..q :
                                            cls_out_idx(net, cls_preds, k,
                                                        << b, a * (q + 1) + j, y, x >>)
                                                = << b, r, j >>
                                      /\ \A j \in 0..3 :
                                            concat_preds_idx(bbox_preds, k,
                                                             << b, a * 4 + j, y, x >>)
                                                = << b, 4 * r + j >>

C18_Witness ==
    /\ pc = "done"
    /\ net.num_classes = 2
    /\ input = << 2, 3, 72, 100 >>
    /\ out = << << 1, 4 * (9 * 12 + 4 * 6 + 2 * 3 + 1 + 1), 4 >>,
                << 2, 4 * (9 * 12 + 4 * 6 + 2 * 3 + 1 + 1), 3 >>,
                << 2, 16 * (9 * 12 + 4 * 6 + 2 * 3 + 1 + 1) >> >>
    /\ anchor_out_row(cls_preds, 2, 1, 2, 3) = 4 * 9 * 12 + (1 * 6 + 2) * 4 + 3

=============================================================================
